---- MODULE Spec2Model ----
(***************************************************************************)
(* A model of snapy's Snapchat session object (src/snapy/__init__.py).     *)
(*                                                                         *)
(* The session is single-threaded and synchronous.  A call of one of its   *)
(* methods is modelled as a short sequence of steps, cut at the points     *)
(* where the method blocks on the network (the identity provider or the    *)
(* API host); the wall clock may advance between two steps.  `trace` is    *)
(* the list of provider calls and API requests made by the call that is    *)
(* running, `outcome` is what that call gives back; when the call is over  *)
(* (pc = "done") control returns to the caller, who may call again.        *)
(*                                                                         *)
(* Spec is the session with all its methods.  SpecMedia has the module's   *)
(* functions on media (get_media_type, get_file_extension) and             *)
(* process_snap of src/bin/get_snaps.py, applied to every byte string and  *)
(* media type of a bounded set.  SpecSig has login and restore_token       *)
(* called one after another, with one login request of an earlier call     *)
(* kept on record in `signed`, so that the signatures of two logins can    *)
(* be compared.                                                            *)
(***************************************************************************)
EXTENDS Integers, Sequences, FiniteSets, TLC

VARIABLES
    username,     \* self.username
    auth_token,   \* self.auth_token   (the bearer token)
    gmail,        \* self.gmail
    gpasswd,      \* self.gpasswd
    gauth,        \* self.gauth        (the secondary token)
    expiry,       \* self.expiry       (instant, in clock units; epoch = 0)
    clock,        \* datetime.now() / timestamp()
    pc,           \* position inside the running call, "idle" between calls
    op,           \* the method that is running
    args,         \* its arguments
    now,          \* its local `now = str(timestamp())`
    dtoken,       \* login's local `dtoken`
    gchk,         \* what the last _get_gauth of this call saw and returned
    trace,        \* provider calls and API requests of this call, in order
    outcome,      \* running / returned / raised, with value or message
    pre,          \* the session's fields when this call began
    established,  \* a login has returned normally, or restore_token was called
    restored,     \* what restore_token left, while it is the last call that returned
    written,      \* the files that the running call wrote, in order
    signed        \* the login requests sent: their form fields and 'now'

session == <<username, auth_token, gmail, gpasswd, gauth, expiry>>
call    == <<pc, op, args, now, dtoken, gchk, trace, outcome, pre>>
ghost   == <<established, restored, written, signed>>
vars    == <<session, clock, call, ghost>>

----------------------------------------------------------------------------
(* Bounds and value sets *)

MaxClock    == 4     \* the clock runs from 1 to MaxClock
MaxLifetime == 2     \* the provider issues tokens valid for 1..MaxLifetime ticks
MaxBlobLen  == 3     \* the byte strings that are classified have 0..MaxBlobLen bytes

None   == "None"     \* Python's None
Absent == "absent"   \* a key that a dict or a response does not have

Users        == {"alice"}
Passwords    == {"pw"}
Gmails       == {"g@mail"}
GPasswds     == {"gpw"}
ValidGCreds  == {<<"g@mail", "gpw">>}
BearerTokens == {"tokA", "tokB"}
GauthTokens  == {"gaA", "gaB"}

MEDIA_IMAGE         == 0
MEDIA_VIDEO         == 1
MEDIA_VIDEO_NOAUDIO == 2

\* Files handed to upload, and blobs that the server sends: a JPEG, an MP4, a
\* zip, two unrecognised ones.
UploadData == { <<255, 216, 255>>, <<0, 0, 1>>, <<80, 75>>, <<1, 2>>, <<>> }

\* The byte values that the magic numbers are made of (0xFF 0xD8, 0x00 0x00,
\* 'P' 'K'), and one that is in none of them.
Bytes == {0, 1, 75, 80, 216, 255}

\* the byte strings of at most n bytes
ByteStrings[n \in Nat] ==
    IF n = 0 THEN { <<>> }
    ELSE ByteStrings[n - 1] \cup
         { Append(s, b) : s \in { t \in ByteStrings[n - 1] : Len(t) = n - 1 },
                          b \in Bytes }

Blobs == ByteStrings[MaxBlobLen]

\* values handed to get_file_extension: None (-1), the three media types, others
MediaTypeValues == {-1, MEDIA_IMAGE, MEDIA_VIDEO, MEDIA_VIDEO_NOAUDIO, 3, 4}

----------------------------------------------------------------------------
(* Media type from the leading bytes *)

\* data[0:2]: a Python slice never fails, it is cut at the end of the data.
Prefix2(data) == SubSeq(data, 1, IF Len(data) < 2 THEN Len(data) ELSE 2)

is_video(data) == Prefix2(data) = <<0, 0>>

is_image(data) == Prefix2(data) = <<255, 216>>

is_zip(data) == Prefix2(data) = <<80, 75>>

\* get_media_type that takes a zip archive for unknown data
get_media_type_nozip(data) ==
    IF is_video(data) THEN MEDIA_VIDEO
    ELSE IF is_image(data) THEN MEDIA_IMAGE
    ELSE -1

get_media_type(data) ==
    IF is_video(data) THEN MEDIA_VIDEO
    ELSE IF is_image(data) THEN MEDIA_IMAGE
    ELSE IF is_zip(data) THEN MEDIA_VIDEO
    ELSE -1                                   \* None

\* get_file_extension that knows no video without audio
get_file_extension_video_only(media_type) ==
    IF media_type = MEDIA_VIDEO THEN "mp4"
    ELSE IF media_type = MEDIA_IMAGE THEN "jpg"
    ELSE ""

\* lines 38-43
get_file_extension(media_type) ==
    IF media_type \in {MEDIA_VIDEO, MEDIA_VIDEO_NOAUDIO} THEN "mp4"
    ELSE IF media_type = MEDIA_IMAGE THEN "jpg"
    ELSE ""

----------------------------------------------------------------------------
(* The methods and their requests *)

GetUpdatesOps == {"get_updates", "get_conversations", "get_snaps",
                  "get_friend_stories", "get_friends", "get_best_friends",
                  "get_blocked"}
SendEventsOps == {"send_events", "mark_viewed", "mark_screenshot"}
\* methods whose request carries params {'now': now, 'gauth': self._get_gauth()}
GauthOps == GetUpdatesOps \cup SendEventsOps \cup
            {"get_blob", "add_friend", "upload", "send", "send_to_story"}
\* methods whose request carries no params at all
PlainOps == {"logout", "get_story_blob", "update_privacy", "delete_friend",
             "block", "unblock", "clear_feed"}
\* methods that decode the response with r.json()
JsonOps == GetUpdatesOps \cup {"add_friend", "send_to_story", "update_privacy",
                               "delete_friend", "block", "unblock"}

Endpoint(o) ==
    CASE o \in GetUpdatesOps    -> "/loq/all_updates"
      [] o \in SendEventsOps    -> "/bq/update_snaps"
      [] o = "get_blob"         -> "/bq/blob"
      [] o = "add_friend"       -> "/bq/friend"
      [] o = "upload"           -> "/ph/upload"
      [] o = "send"             -> "/loq/send"
      [] o = "send_to_story"    -> "/bq/post_story"
      [] o = "logout"           -> "logout"
      [] o = "get_story_blob"   -> "/bq/story_blob"
      [] o = "update_privacy"   -> "settings"
      [] o = "clear_feed"       -> "clear"
      [] o \in {"delete_friend", "block", "unblock"} -> "friend"

\* the raise_for_status argument: False in get_story_blob only
RaiseForStatus(o) == o # "get_story_blob"

----------------------------------------------------------------------------
(* The network: the API host and the identity provider *)

\* `body` is followed for the blobs of /bq/blob only
NoResp == [status |-> "none", empty |-> TRUE, ur |-> FALSE, tok |-> Absent,
           user |-> FALSE, msg |-> Absent, dtoken |-> Absent, body |-> <<>>]

FailedResponses ==
    { [NoResp EXCEPT !.status = s] : s \in {"conn_error", "http_error"} }

\* /loq/device_id answers with a JSON object that holds dtoken1i and dtoken1v, or not
DeviceResponses ==
    { [NoResp EXCEPT !.status = "ok", !.empty = FALSE, !.dtoken = d] :
          d \in {"dt1", Absent} }

\* the server's 'message': a text that names no user, or one that names the
\* user who tried to log in
ServerMessages == {"Invalid username or password"} \cup
                  { "No account of " \o u : u \in Users }

\* /loq/login answers with a JSON object: 'updates_response' (with or without
\* 'auth_token' and 'username') and 'message' may each be there or not
LoginResponses ==
    { [NoResp EXCEPT !.status = "ok", !.empty = FALSE, !.ur = TRUE,
                     !.tok = t, !.user = u, !.msg = m] :
          t \in BearerTokens \cup {Absent}, u \in BOOLEAN,
          m \in ServerMessages \cup {Absent} }
    \cup
    { [NoResp EXCEPT !.status = "ok", !.empty = FALSE, !.msg = m] :
          m \in ServerMessages \cup {Absent} }

\* any other endpoint: an empty body, or a JSON body with or without 'auth_token'
PlainResponses ==
    { [NoResp EXCEPT !.status = "ok"] }
    \cup
    { [NoResp EXCEPT !.status = "ok", !.empty = FALSE, !.tok = t] :
          t \in BearerTokens \cup {Absent} }

\* 'friend' (delete, block, unblock): the JSON body may hold 'updates_response'
FriendResponses ==
    PlainResponses \cup
    { [NoResp EXCEPT !.status = "ok", !.empty = FALSE, !.ur = TRUE] }

\* /bq/blob answers with the bytes of the snap, whatever they are
BlobResponses ==
    { [NoResp EXCEPT !.status = "ok", !.empty = (b = <<>>), !.body = b] :
          b \in UploadData }

Responses(endpoint) ==
    FailedResponses \cup
    ( CASE endpoint = "/loq/device_id" -> DeviceResponses
        [] endpoint = "/bq/blob"       -> BlobResponses
        [] endpoint = "/loq/login"     -> LoginResponses
        [] endpoint = "friend"         -> FriendResponses
        [] OTHER                       -> PlainResponses )

\* utils.get_auth_token(email, password): the provider's answers at this instant.
\* It fails (bad credentials, or the network), or issues a token that the session
\* does not hold yet, valid for at least one tick.
AuthFailure == [ok |-> FALSE, token |-> None, expiry |-> 0]

FreshToken == CHOOSE t \in GauthTokens : t # gauth

get_auth_token(email, password) ==
    {AuthFailure} \cup
    ( IF <<email, password>> \in ValidGCreds
      THEN { [ok |-> TRUE, token |-> FreshToken, expiry |-> clock + l] :
                 l \in 1..MaxLifetime }
      ELSE {} )

----------------------------------------------------------------------------
(* Entries of the trace *)

\* no signature
NoDsig == [key |-> Absent, msg |-> <<>>, digits |-> 0]

ProviderCall(by, answer) ==
    [kind |-> "provider", who |-> by,
     bearer |-> None, dsig |-> NoDsig, nowParam |-> -1, gauthParam |-> Absent,
     gauthExp |-> -1, checkedAt |-> -1, expBefore |-> -1, raised |-> ~answer.ok,
     resp |-> NoResp, answer |-> answer]

\* utils.request(endpoint, auth_token, data, params, files, raise_for_status, ...)
request(endpoint, token, data, params, raise_for_status, resp) ==
    [kind |-> "request", who |-> endpoint,
     bearer |-> token, dsig |-> data.dsig, nowParam |-> params.now, gauthParam |-> params.gauth,
     gauthExp |-> params.gauthExp, checkedAt |-> params.checkedAt,
     expBefore |-> params.expBefore,
     raised |-> \/ resp.status = "conn_error"
                \/ resp.status = "http_error" /\ raise_for_status,
     resp |-> resp, answer |-> AuthFailure]

\* Snapchat._request: the session's bearer token goes with every request
_request(endpoint, data, params, raise_for_status, resp) ==
    request(endpoint, auth_token, data, params, raise_for_status, resp)

\* the form fields of a request that the model follows: those of login
NoData == [username |-> None, password |-> None, dsig |-> NoDsig,
           dtoken1i |-> Absent, req_token |-> <<>>]

NoParams == [now |-> -1, gauth |-> Absent, gauthExp |-> -1, checkedAt |-> -1,
             expBefore |-> -1]

NoGchk == [val |-> None, exp |-> -1, checkedAt |-> -1, expBefore |-> -1]

\* params = {'gauth': <what _get_gauth returned>}, with 'now' or without
GauthParams(withNow) ==
    [now |-> IF withNow THEN now ELSE -1, gauth |-> gchk.val,
     gauthExp |-> gchk.exp, checkedAt |-> gchk.checkedAt,
     expBefore |-> gchk.expBefore]

\* What a call gives back.  `value` names the returned value; where the value
\* is a media type or a byte string it is `media_type` (-1: None) or `content`.
Running == [status |-> "running", value |-> None, msg |-> None,
            media_type |-> -1, content |-> <<>>]
Returned(v) == [Running EXCEPT !.status = "returned", !.value = v]
Raised(m) == [Running EXCEPT !.status = "raised", !.msg = m]
ReturnedMediaType(m) == [Returned("media_type") EXCEPT !.media_type = m]
ReturnedContent(d) == [Returned("content") EXCEPT !.content = d]

NotRestored == [on |-> FALSE, username |-> None, auth_token |-> None,
                gauth |-> None, expiry |-> 0]

NoPre == [username |-> None, auth_token |-> None, gauth |-> None, expiry |-> 0]

\* media_type: -1 stands for None
NoArgs == [username |-> None, password |-> None, gmail |-> None,
           gpasswd |-> None, auth_token |-> None, data |-> <<>>, exists |-> TRUE,
           media_type |-> -1]

----------------------------------------------------------------------------
(* Snapchat.__init__ *)

Init ==
    /\ username = None
    /\ auth_token = None
    /\ gmail = None
    /\ gpasswd = None
    /\ gauth = None
    /\ expiry = 0                       \* datetime.fromtimestamp(0)
    /\ clock = 1
    /\ pc = "idle"
    /\ op = "none"
    /\ args = NoArgs
    /\ now = 0
    /\ dtoken = Absent
    /\ gchk = NoGchk
    /\ trace = <<>>
    /\ outcome = Running
    /\ pre = NoPre
    /\ established = FALSE
    /\ restored = NotRestored
    /\ written = <<>>
    /\ signed = <<>>

\* Time passes, between calls and while a call waits for the network.
Tick ==
    /\ pc # "done"
    /\ clock < MaxClock
    /\ clock' = clock + 1
    /\ UNCHANGED <<session, call, ghost>>

\* The caller invokes method o with arguments a: the call's locals are fresh.
Begin(o, a) ==
    /\ pc = "idle"
    /\ op' = o
    /\ args' = a
    /\ now' = clock                     \* now = str(timestamp())
    /\ dtoken' = Absent
    /\ pre' = [username |-> username, auth_token |-> auth_token,
               gauth |-> gauth, expiry |-> expiry]
    /\ UNCHANGED <<clock, restored, written, signed>>

\* The call is over: control is back with the caller, and the call's locals
\* are gone.  `kept` is what the history of login requests goes on with.
Returning(kept) ==
    /\ pc = "done"
    /\ pc' = "idle"
    /\ op' = "none"
    /\ args' = NoArgs
    /\ now' = 0
    /\ dtoken' = Absent
    /\ gchk' = NoGchk
    /\ trace' = <<>>
    /\ outcome' = Running
    /\ pre' = NoPre
    /\ written' = <<>>
    /\ signed' = kept
    /\ restored' = IF op = "restore_token" /\ outcome.status = "returned"
                   THEN [on |-> TRUE, username |-> username,
                         auth_token |-> auth_token, gauth |-> gauth,
                         expiry |-> expiry]
                   ELSE NotRestored
    /\ UNCHANGED <<session, clock, established>>

Return == Returning(<<>>)

----------------------------------------------------------------------------
(* Snapchat._unset_auth, Snapchat._get_gauth *)

_unset_auth ==
    /\ username' = None
    /\ auth_token' = None

\* where a call goes on after _get_gauth has returned
AfterGauth ==
    CASE pc = "gauth"       -> "request"
      [] pc = "dev_gauth"   -> "dev_req"
      [] pc = "login_gauth" -> "login_req"

\* _get_gauth that drops the cached token when the provider call fails
_get_gauth_clears ==
    IF clock >= expiry
    THEN \E answer \in get_auth_token(gmail, gpasswd) :
           /\ trace' = Append(trace, ProviderCall("_get_gauth", answer))
           /\ IF answer.ok
              THEN /\ gauth' = answer.token
                   /\ expiry' = answer.expiry
                   /\ gchk' = [val |-> answer.token, exp |-> answer.expiry,
                               checkedAt |-> clock, expBefore |-> expiry]
                   /\ pc' = AfterGauth
                   /\ UNCHANGED outcome
              ELSE /\ outcome' = Raised("AuthError")
                   /\ pc' = "done"
                   /\ gauth' = None
                   /\ UNCHANGED <<expiry, gchk>>
    ELSE /\ gchk' = [val |-> gauth, exp |-> expiry,
                     checkedAt |-> clock, expBefore |-> expiry]
         /\ pc' = AfterGauth
         /\ UNCHANGED <<gauth, expiry, trace, outcome>>

\* _get_gauth with `>` for `>=`: a token is still used at its expiry instant
_get_gauth_strict ==
    IF clock > expiry
    THEN \E answer \in get_auth_token(gmail, gpasswd) :
           /\ trace' = Append(trace, ProviderCall("_get_gauth", answer))
           /\ IF answer.ok
              THEN /\ gauth' = answer.token
                   /\ expiry' = answer.expiry
                   /\ gchk' = [val |-> answer.token, exp |-> answer.expiry,
                               checkedAt |-> clock, expBefore |-> expiry]
                   /\ pc' = AfterGauth
                   /\ UNCHANGED outcome
              ELSE /\ outcome' = Raised("AuthError")
                   /\ pc' = "done"
                   /\ UNCHANGED <<gauth, expiry, gchk>>
    ELSE /\ gchk' = [val |-> gauth, exp |-> expiry,
                     checkedAt |-> clock, expBefore |-> expiry]
         /\ pc' = AfterGauth
         /\ UNCHANGED <<gauth, expiry, trace, outcome>>

\* _get_gauth without the expiry check: every call asks the provider
_get_gauth_eager ==
    \E answer \in get_auth_token(gmail, gpasswd) :
      /\ trace' = Append(trace, ProviderCall("_get_gauth", answer))
      /\ IF answer.ok
         THEN /\ gauth' = answer.token
              /\ expiry' = answer.expiry
              /\ gchk' = [val |-> answer.token, exp |-> answer.expiry,
                          checkedAt |-> clock, expBefore |-> expiry]
              /\ pc' = AfterGauth
              /\ UNCHANGED outcome
         ELSE /\ outcome' = Raised("AuthError")
              /\ pc' = "done"
              /\ UNCHANGED <<gauth, expiry, gchk>>

\* _get_gauth that asks the provider a second time when the first call fails
_get_gauth_retry ==
    IF clock >= expiry
    THEN \E first \in get_auth_token(gmail, gpasswd) :
         \E answer \in IF first.ok THEN {first} ELSE get_auth_token(gmail, gpasswd) :
           /\ trace' = IF first.ok
                       THEN Append(trace, ProviderCall("_get_gauth", first))
                       ELSE trace \o <<ProviderCall("_get_gauth", first),
                                       ProviderCall("_get_gauth", answer)>>
           /\ IF answer.ok
              THEN /\ gauth' = answer.token
                   /\ expiry' = answer.expiry
                   /\ gchk' = [val |-> answer.token, exp |-> answer.expiry,
                               checkedAt |-> clock, expBefore |-> expiry]
                   /\ pc' = AfterGauth
                   /\ UNCHANGED outcome
              ELSE /\ outcome' = Raised("AuthError")
                   /\ pc' = "done"
                   /\ UNCHANGED <<gauth, expiry, gchk>>
    ELSE /\ gchk' = [val |-> gauth, exp |-> expiry,
                     checkedAt |-> clock, expBefore |-> expiry]
         /\ pc' = AfterGauth
         /\ UNCHANGED <<gauth, expiry, trace, outcome>>

_get_gauth ==
    IF clock >= expiry
    THEN \E answer \in get_auth_token(gmail, gpasswd) :
           /\ trace' = Append(trace, ProviderCall("_get_gauth", answer))
           /\ IF answer.ok
              THEN /\ gauth' = answer.token
                   /\ expiry' = answer.expiry
                   /\ gchk' = [val |-> answer.token, exp |-> answer.expiry,
                               checkedAt |-> clock, expBefore |-> expiry]
                   /\ pc' = AfterGauth
                   /\ UNCHANGED outcome
              ELSE /\ outcome' = Raised("AuthError")
                   /\ pc' = "done"
                   /\ UNCHANGED <<gauth, expiry, gchk>>
    ELSE /\ gchk' = [val |-> gauth, exp |-> expiry,
                     checkedAt |-> clock, expBefore |-> expiry]
         /\ pc' = AfterGauth
         /\ UNCHANGED <<gauth, expiry, trace, outcome>>

\* The running call evaluates self._get_gauth() for the params of its request.
GetGauth ==
    /\ pc \in {"gauth", "dev_gauth", "login_gauth"}
    /\ _get_gauth
    /\ UNCHANGED <<username, auth_token, gmail, gpasswd, clock,
                   op, args, now, dtoken, pre, ghost>>

----------------------------------------------------------------------------
(* Snapchat.restore_token *)

\* restore_token that forgets to store the bearer token
restore_token_no_bearer ==
    \E u \in Users, t \in BearerTokens, g \in Gmails, p \in GPasswds :
      /\ Begin("restore_token", [NoArgs EXCEPT !.username = u, !.auth_token = t,
                                               !.gmail = g, !.gpasswd = p])
      /\ username' = u
      /\ gmail' = g
      /\ gpasswd' = p
      /\ established' = TRUE
      /\ gchk' = NoGchk
      /\ pc' = "done"
      /\ \E answer \in get_auth_token(g, p) :
           /\ trace' = <<ProviderCall("restore_token", answer)>>
           /\ IF answer.ok
              THEN /\ gauth' = answer.token
                   /\ expiry' = answer.expiry
                   /\ outcome' = Returned(None)
              ELSE /\ outcome' = Raised("AuthError")
                   /\ UNCHANGED <<gauth, expiry>>
      /\ UNCHANGED auth_token

restore_token ==
    \E u \in Users, t \in BearerTokens, g \in Gmails, p \in GPasswds :
      /\ Begin("restore_token", [NoArgs EXCEPT !.username = u, !.auth_token = t,
                                               !.gmail = g, !.gpasswd = p])
      /\ username' = u
      /\ auth_token' = t
      /\ gmail' = g
      /\ gpasswd' = p
      /\ established' = TRUE
      /\ gchk' = NoGchk
      /\ pc' = "done"
      /\ \E answer \in get_auth_token(g, p) :
           /\ trace' = <<ProviderCall("restore_token", answer)>>
           /\ IF answer.ok
              THEN /\ gauth' = answer.token
                   /\ expiry' = answer.expiry
                   /\ outcome' = Returned(None)
              ELSE /\ outcome' = Raised("AuthError")
                   /\ UNCHANGED <<gauth, expiry>>

----------------------------------------------------------------------------
(* Snapchat.login, Snapchat._get_device_token *)

\* login that swallows a failure of get_auth_token and goes on
login_swallow ==
    \E u \in Users, pw \in Passwords, g \in Gmails, p \in GPasswds :
      /\ Begin("login", [NoArgs EXCEPT !.username = u, !.password = pw,
                                       !.gmail = g, !.gpasswd = p])
      /\ gmail' = g
      /\ gpasswd' = p
      /\ gchk' = NoGchk
      /\ \E answer \in get_auth_token(g, p) :
           /\ trace' = <<ProviderCall("login", answer)>>
           /\ outcome' = Running
           /\ pc' = "dev_gauth"
           /\ IF answer.ok
              THEN gauth' = answer.token /\ expiry' = answer.expiry
              ELSE UNCHANGED <<gauth, expiry>>
      /\ UNCHANGED <<username, auth_token, established>>

\* lines 143-150: the credentials are stored and a fresh secondary token fetched
login ==
    \E u \in Users, pw \in Passwords, g \in Gmails, p \in GPasswds :
      /\ Begin("login", [NoArgs EXCEPT !.username = u, !.password = pw,
                                       !.gmail = g, !.gpasswd = p])
      /\ gmail' = g
      /\ gpasswd' = p
      /\ gchk' = NoGchk
      /\ \E answer \in get_auth_token(g, p) :
           /\ trace' = <<ProviderCall("login", answer)>>
           /\ IF answer.ok
              THEN /\ gauth' = answer.token
                   /\ expiry' = answer.expiry
                   /\ outcome' = Running
                   /\ pc' = "dev_gauth"
              ELSE /\ outcome' = Raised("AuthError")
                   /\ pc' = "done"
                   /\ UNCHANGED <<gauth, expiry>>
      /\ UNCHANGED <<username, auth_token, established>>

\* LoginDeviceToken without line 153: the old credentials stay in the session
LoginDeviceToken_keeps_auth ==
    /\ pc = "dev_req"
    /\ \E resp \in Responses("/loq/device_id") :
         LET r == _request("/loq/device_id", NoData, GauthParams(FALSE), TRUE, resp) IN
           /\ trace' = Append(trace, r)
           /\ IF r.raised
              THEN /\ outcome' = Raised("TransportError")
                   /\ pc' = "done"
                   /\ UNCHANGED <<username, auth_token, dtoken>>
              ELSE /\ dtoken' = resp.dtoken
                   /\ UNCHANGED <<username, auth_token>>
                   /\ IF resp.dtoken = Absent
                      THEN outcome' = Raised("KeyError") /\ pc' = "done"
                      ELSE outcome' = Running /\ pc' = "login_gauth"
    /\ UNCHANGED <<gmail, gpasswd, gauth, expiry, clock,
                   op, args, now, gchk, pre, ghost>>

\* line 152 (the request of _get_device_token), line 153, and the lookup
\* dtoken['dtoken1v'] of line 162, which comes before line 171's _get_gauth
LoginDeviceToken ==
    /\ pc = "dev_req"
    /\ \E resp \in Responses("/loq/device_id") :
         LET r == _request("/loq/device_id", NoData, GauthParams(FALSE), TRUE, resp) IN
           /\ trace' = Append(trace, r)
           /\ IF r.raised
              THEN /\ outcome' = Raised("TransportError")
                   /\ pc' = "done"
                   /\ UNCHANGED <<username, auth_token, dtoken>>
              ELSE /\ dtoken' = resp.dtoken
                   /\ _unset_auth
                   /\ IF resp.dtoken = Absent
                      THEN outcome' = Raised("KeyError") /\ pc' = "done"
                      ELSE outcome' = Running /\ pc' = "login_gauth"
    /\ UNCHANGED <<gmail, gpasswd, gauth, expiry, clock,
                   op, args, now, gchk, pre, ghost>>

\* utils.STATIC_TOKEN and utils.make_request_token(a, b): a token made of both
STATIC_TOKEN == "static_token"

make_request_token(a, b) == <<"request_token", a, b>>

\* line 151: string = username + "|" + password + "|" + now + "|" + req_token
string == <<args.username, "|", args.password, "|", now, "|",
            make_request_token(STATIC_TOKEN, now)>>

\* hmac.new(key, msg, sha256).hexdigest(): the 64 hexadecimal digits of the
\* SHA-256 HMAC of msg under key
hexdigest(key, msg) == [key |-> key, msg |-> msg, digits |-> 64]

\* s[:n], a Python slice: the first n characters, or all of s if it has fewer
Slice(s, n) == [s EXCEPT !.digits = IF n < s.digits THEN n ELSE s.digits]

\* dsig that takes the time when the request is signed, not login's `now`
dsig_at_send(key) ==
    Slice(hexdigest(key, <<args.username, "|", args.password, "|", clock, "|",
                           make_request_token(STATIC_TOKEN, clock)>>), 20)

\* line 162: hmac.new(str(dtoken['dtoken1v']), string, sha256).hexdigest()[:20]
dsig(key) == Slice(hexdigest(key, string), 20)

\* lines 155-173: the fields of the login request that the model follows
LoginData ==
    [username |-> args.username, password |-> args.password,
     dsig |-> dsig(dtoken), dtoken1i |-> dtoken,
     req_token |-> make_request_token(STATIC_TOKEN, now)]

\* LoginResult without the check of line 186: the result is always returned
LoginResult_unchecked(resp) ==
    LET tok == IF resp.ur /\ resp.tok # Absent THEN resp.tok ELSE auth_token
        usr == IF resp.ur /\ resp.user THEN args.username ELSE username
    IN  /\ auth_token' = tok
        /\ username' = usr
        /\ outcome' = Returned("result")
        /\ established' = TRUE

\* lines 176-189: what login makes of the decoded response
LoginResult(resp) ==
    LET tok == IF resp.ur /\ resp.tok # Absent THEN resp.tok ELSE auth_token
        usr == IF resp.ur /\ resp.user THEN args.username ELSE username
    IN  /\ auth_token' = tok
        /\ username' = usr
        /\ IF usr = None /\ tok = None
           THEN /\ outcome' = Raised(IF resp.msg # Absent THEN resp.msg
                                                         ELSE "unknown error")
                /\ UNCHANGED established
           ELSE /\ outcome' = Returned("result")
                /\ established' = TRUE

\* lines 155-189: the login request and its response
LoginRequest ==
    /\ pc = "login_req"
    /\ pc' = "done"
    /\ \E resp \in Responses("/loq/login") :
         LET r == _request("/loq/login", LoginData, GauthParams(TRUE), TRUE, resp) IN
           /\ trace' = Append(trace, r)
           /\ signed' = Append(signed, [data |-> LoginData, now |-> now,
                                        gauth |-> gchk.val])
           /\ IF r.raised
              THEN /\ outcome' = Raised("TransportError")
                   /\ UNCHANGED <<username, auth_token, established>>
              ELSE LoginResult(resp)
    /\ UNCHANGED <<gmail, gpasswd, gauth, expiry, clock,
                   op, args, now, dtoken, gchk, pre, restored, written>>

----------------------------------------------------------------------------
(* The other methods *)

\* r = self._request(<endpoint of o>, ..., params, raise_for_status of o)
Exchange(o, params, resp) ==
    _request(Endpoint(o), NoData, params, RaiseForStatus(o), resp)

\* request() raised, or r.json() found no JSON to decode
Failed(o, r) == r.raised \/ (o \in JsonOps /\ r.resp.empty)

Failure(r) == IF r.raised THEN Raised("TransportError") ELSE Raised("ValueError")

IsEmpty(resp) == IF resp.empty THEN "True" ELSE "False"   \* len(r.content) == 0

\* Results with a get_blob that gives None for bytes of no known media type
Results_sniffed(o, resp) ==
    CASE o = "get_updates" -> {Returned("result")}
      [] o \in GetUpdatesOps \ {"get_updates"} ->
             {Returned("derived"), Raised("KeyError")}
      [] o \in SendEventsOps \cup {"send", "logout", "clear_feed"} ->
             {Returned(IsEmpty(resp))}
      [] o = "upload" -> {Returned(IF resp.empty THEN "media_id" ELSE None)}
      [] o = "get_blob" -> {IF get_media_type(resp.body) = -1 THEN Returned(None)
                            ELSE ReturnedContent(resp.body)}
      [] o \in {"add_friend", "send_to_story"} -> {Returned("json")}
      [] o = "get_story_blob" -> {Returned("data"), Raised("DecodeError")}
      [] o \in {"update_privacy", "block", "unblock"} -> {Returned("compared")}
      [] o = "delete_friend" -> IF resp.ur THEN {Returned("logged")}
                                           ELSE {Raised("KeyError")}

\* What method o can give back for a response that was received and, where the
\* method decodes it, decoded: its return statement.  The callers of
\* get_updates pick their result out of the JSON and delete_friend indexes
\* 'updates_response', which fails on a response without those keys;
\* get_story_blob hands the body to decrypt_story, which gives the plaintext or
\* fails on a malformed ciphertext.
Results(o, resp) ==
    CASE o = "get_updates" -> {Returned("result")}
      [] o \in GetUpdatesOps \ {"get_updates"} ->
             {Returned("derived"), Raised("KeyError")}
      [] o \in SendEventsOps \cup {"send", "logout", "clear_feed"} ->
             {Returned(IsEmpty(resp))}
      [] o = "upload" -> {Returned(IF resp.empty THEN "media_id" ELSE None)}
      [] o = "get_blob" -> {ReturnedContent(resp.body)}
      [] o \in {"add_friend", "send_to_story"} -> {Returned("json")}
      [] o = "get_story_blob" -> {Returned("data"), Raised("DecodeError")}
      [] o \in {"update_privacy", "block", "unblock"} -> {Returned("compared")}
      [] o = "delete_friend" -> IF resp.ur THEN {Returned("logged")}
                                           ELSE {Raised("KeyError")}

\* A method that takes `now` and asks _get_gauth for the token of its params.
Call ==
    \E o \in GauthOps \ {"upload"} :
      /\ Begin(o, NoArgs)
      /\ pc' = "gauth"
      /\ gchk' = NoGchk
      /\ trace' = <<>>
      /\ outcome' = Running
      /\ UNCHANGED <<session, established>>

\* upload without the check of lines 482-484: whatever was read is sent
upload_unchecked ==
    \E d \in UploadData, e \in BOOLEAN :
      /\ Begin("upload", [NoArgs EXCEPT !.data = d, !.exists = e])
      /\ gchk' = NoGchk
      /\ trace' = <<>>
      /\ IF ~e
         THEN outcome' = Raised("ValueError") /\ pc' = "done"
         ELSE outcome' = Running /\ pc' = "gauth"
      /\ UNCHANGED <<session, established>>

\* lines 476-487: the file is read and its media type decided before any request
upload ==
    \E d \in UploadData, e \in BOOLEAN :
      /\ Begin("upload", [NoArgs EXCEPT !.data = d, !.exists = e])
      /\ gchk' = NoGchk
      /\ trace' = <<>>
      /\ IF ~e \/ get_media_type(d) = -1
         THEN outcome' = Raised("ValueError") /\ pc' = "done"
         ELSE outcome' = Running /\ pc' = "gauth"
      /\ UNCHANGED <<session, established>>

\* The request of a method that went through _get_gauth, and what it returns.
Reply(ops) ==
    /\ pc = "request"
    /\ op \in ops
    /\ pc' = "done"
    /\ \E resp \in Responses(Endpoint(op)) :
         LET r == Exchange(op, GauthParams(TRUE), resp) IN
           /\ trace' = Append(trace, r)
           /\ outcome' \in IF Failed(op, r) THEN {Failure(r)} ELSE Results(op, resp)
    /\ UNCHANGED <<session, clock, op, args, now, dtoken, gchk, pre, ghost>>

\* lines 205-220, for get_updates itself and for the methods that call it
get_updates ==
    /\ pc = "request"
    /\ op \in GetUpdatesOps
    /\ pc' = "done"
    /\ \E resp \in Responses(Endpoint(op)) :
         LET r == Exchange(op, GauthParams(TRUE), resp) IN
           /\ trace' = Append(trace, r)
           /\ IF Failed(op, r)
              THEN /\ outcome' = Failure(r)
                   /\ UNCHANGED auth_token
              ELSE /\ auth_token' = IF resp.tok # Absent THEN resp.tok
                                                         ELSE auth_token
                   /\ outcome' \in Results(op, resp)
    /\ UNCHANGED <<username, gmail, gpasswd, gauth, expiry, clock,
                   op, args, now, dtoken, gchk, pre, ghost>>

get_blob == Reply({"get_blob"})

send_events == Reply(SendEventsOps)

add_friend == Reply({"add_friend"})

UploadRequest == Reply({"upload"})

send == Reply({"send"})

send_to_story == Reply({"send_to_story"})

\* Plain with a logout that clears the credentials once the server has answered
Plain_logout_clears(o) ==
    /\ Begin(o, NoArgs)
    /\ pc' = "done"
    /\ gchk' = NoGchk
    /\ \E resp \in Responses(Endpoint(o)) :
         LET r == Exchange(o, NoParams, resp) IN
           /\ trace' = <<r>>
           /\ outcome' \in IF Failed(o, r) THEN {Failure(r)} ELSE Results(o, resp)
           /\ IF o = "logout" /\ ~Failed(o, r)
              THEN _unset_auth
              ELSE UNCHANGED <<username, auth_token>>
    /\ UNCHANGED <<gmail, gpasswd, gauth, expiry, established>>

\* A method whose request carries no params: the whole call is one exchange.
Plain(o) ==
    /\ Begin(o, NoArgs)
    /\ pc' = "done"
    /\ gchk' = NoGchk
    /\ \E resp \in Responses(Endpoint(o)) :
         LET r == Exchange(o, NoParams, resp) IN
           /\ trace' = <<r>>
           /\ outcome' \in IF Failed(o, r) THEN {Failure(r)} ELSE Results(o, resp)
    /\ UNCHANGED <<session, established>>

logout == Plain("logout")

\* raise_for_status=False: the body goes to decrypt_story whatever the status
get_story_blob == Plain("get_story_blob")

update_privacy == Plain("update_privacy")

delete_friend == Plain("delete_friend")

block == Plain("block")

unblock == Plain("unblock")

clear_feed == Plain("clear_feed")

----------------------------------------------------------------------------

Next ==
    \/ Tick \/ Return
    \/ login \/ GetGauth \/ LoginDeviceToken \/ LoginRequest
    \/ restore_token
    \/ Call \/ get_updates \/ get_blob \/ send_events \/ add_friend
    \/ upload \/ UploadRequest \/ send \/ send_to_story
    \/ logout \/ get_story_blob \/ update_privacy \/ delete_friend
    \/ block \/ unblock \/ clear_feed

Spec == Init /\ [][Next]_vars

----------------------------------------------------------------------------
(* The module's functions on media, and bin/get_snaps.py's process_snap *)

\* The caller evaluates get_media_type(data).
GetMediaType ==
    \E d \in Blobs :
      /\ Begin("get_media_type", [NoArgs EXCEPT !.data = d])
      /\ pc' = "done"
      /\ gchk' = NoGchk
      /\ trace' = <<>>
      /\ outcome' = ReturnedMediaType(get_media_type(d))
      /\ UNCHANGED <<session, established>>

\* The caller evaluates get_file_extension(media_type).
GetFileExtension ==
    \E m \in MediaTypeValues :
      /\ Begin("get_file_extension", [NoArgs EXCEPT !.media_type = m])
      /\ pc' = "done"
      /\ gchk' = NoGchk
      /\ trace' = <<>>
      /\ outcome' = Returned(get_file_extension(m))
      /\ UNCHANGED <<session, established>>

\* The entries of the server's snap list: 'm' is the media type that the
\* server declares (-1: the key is missing), 'id' and 'sn' name snap and sender.
ServerSnaps == { [m |-> m, id |-> "snap1", sn |-> "bob"] : m \in MediaTypeValues }

\* the keys of _map_keys that process_snap reads; snap.get('m', None)
_map_keys(snap) == [media_type |-> snap.m, id |-> snap.id, sender |-> snap.sn]

\* get_snaps.py, process_snap(s, snap, path, quiet) for one entry of
\* s.get_snaps(): `present` is os.path.isfile(abspath); s.get_blob(snap['id'])
\* gives the bytes d that the server sent, or raises.
process_snap ==
    \E raw \in ServerSnaps, d \in Blobs, present \in BOOLEAN, fetched \in BOOLEAN :
      LET snap     == _map_keys(raw)
          filename == [sender |-> snap.sender, id |-> snap.id,
                       ext |-> get_file_extension(snap.media_type)]
      IN  /\ pc = "idle"
          /\ op' = "process_snap"
          /\ args' = [NoArgs EXCEPT !.media_type = snap.media_type,
                                    !.data = d, !.exists = present]
          /\ pc' = "done"
          /\ gchk' = NoGchk
          /\ trace' = <<>>
          /\ IF present
             THEN outcome' = Returned(None) /\ written' = <<>>
             ELSE IF ~fetched
             THEN outcome' = Raised("TransportError") /\ written' = <<>>
             ELSE /\ outcome' = Returned(None)
                  /\ written' = <<[name |-> filename, data |-> d]>>
          /\ UNCHANGED <<session, clock, now, dtoken, pre, established, restored, signed>>

NextMedia == GetMediaType \/ GetFileExtension \/ process_snap \/ Return

SpecMedia == Init /\ [][NextMedia]_vars

----------------------------------------------------------------------------
(* One login after another, with the login requests of earlier calls on record *)

\* The call is over; of the login requests sent so far, one stays on record.
ReturnSigned ==
    \E kept \in IF signed = <<>> THEN { <<>> }
                 ELSE { <<signed[i]>> : i \in DOMAIN signed } :
      Returning(kept)

NextSig ==
    \/ Tick \/ ReturnSigned
    \/ login \/ GetGauth \/ LoginDeviceToken \/ LoginRequest
    \/ restore_token

SpecSig == Init /\ [][NextSig]_vars

----------------------------------------------------------------------------
(* Properties *)

IsRequest(e)  == e.kind = "request"
IsProvider(e) == e.kind = "provider"
Last(seq)     == seq[Len(seq)]

\* the requests of the running call that carry a 'gauth' parameter
GauthRequests == { i \in DOMAIN trace : IsRequest(trace[i]) /\ trace[i].gauthParam # Absent }

\* the provider calls that _get_gauth made for request i: those since the
\* request before it
RefreshesFor(i) ==
    { j \in 1..(i - 1) : /\ IsProvider(trace[j])
                         /\ trace[j].who = "_get_gauth"
                         /\ \A k \in (j + 1)..(i - 1) : ~IsRequest(trace[k]) }

\* C1: the secondary token that a request carries in 'gauth' is a token (never
\* the unset one) whose expiry instant is strictly later than the clock value at
\* which _get_gauth checked it.
C1_TokenValidWhenChecked ==
    \A i \in GauthRequests :
        /\ trace[i].gauthParam \in GauthTokens
        /\ trace[i].gauthExp > trace[i].checkedAt

\* a request whose token was fetched by _get_gauth on a session that had never
\* held one (expiry still the epoch)
C1_Witness ==
    \E i \in GauthRequests :
        /\ trace[i].expBefore = 0
        /\ trace[i].gauthParam \in GauthTokens
        /\ trace[i].who = "/loq/all_updates"

\* C2 as stated, in what it says of the requests that carry 'gauth': for the
\* first such request of a call, no provider call at all is made when
\* now < expiry held as the session set about it, and one is made when
\* now >= expiry.
C2_Original ==
    \A i \in GauthRequests :
        (\A k \in 1..(i - 1) : ~IsRequest(trace[k])) =>
            LET t == IF op = "login" THEN now ELSE trace[i].checkedAt
                n == Cardinality({ j \in 1..(i - 1) : IsProvider(trace[j]) })
            IN  IF t < pre.expiry THEN n = 0 ELSE n >= 1

\* C2, amended: the refresh is lazy inside _get_gauth.  For a request that
\* carries 'gauth', _get_gauth made no provider call when now < expiry (and the
\* cached token is the one sent) and exactly one when now >= expiry; a request
\* without 'gauth' comes with no provider call; the one other provider call
\* of a call that sends requests is login's own, made first whatever the expiry.
C2_LazyRefresh ==
    /\ \A i \in GauthRequests :
         /\ Cardinality(RefreshesFor(i)) =
                IF trace[i].checkedAt >= trace[i].expBefore THEN 1 ELSE 0
         /\ (trace[i].checkedAt < trace[i].expBefore /\ i = 1)
                => (trace[i].gauthParam = pre.gauth /\ gauth = pre.gauth)
    /\ \A i \in DOMAIN trace :
         /\ (IsRequest(trace[i]) /\ trace[i].gauthParam = Absent)
                => Len(trace) = 1
         /\ (IsProvider(trace[i]) /\ trace[i].who = "login")
                => (i = 1 /\ op = "login")
    /\ (op = "login" /\ pc # "idle") => (IsProvider(trace[1]) /\ trace[1].who = "login")

\* a login whose first _get_gauth reused the token and whose second refreshed it
C2_Witness ==
    /\ op = "login"
    /\ \E i, j \in GauthRequests :
         /\ trace[i].checkedAt < trace[i].expBefore
         /\ RefreshesFor(i) = {}
         /\ trace[j].checkedAt >= trace[j].expBefore
         /\ Cardinality(RefreshesFor(j)) = 1

LoginOver == pc = "done" /\ op = "login"

\* the login request was answered, and the answer decoded
LoginAnswered ==
    /\ LoginOver
    /\ Last(trace).who = "/loq/login"
    /\ ~Last(trace).raised

HasToken(resp) == resp.ur /\ resp.tok # Absent
HasUser(resp)  == resp.ur /\ resp.user

\* C3 as stated: after login the session is Authenticated only if the response
\* held both a username and a bearer token, and Unauthenticated (both unset)
\* after any other outcome.
C3_Original ==
    LoginOver =>
        IF LoginAnswered /\ HasToken(Last(trace).resp) /\ HasUser(Last(trace).resp)
        THEN username # None /\ auth_token # None
        ELSE username = None /\ auth_token = None

Neither(resp) == ~HasToken(resp) /\ ~HasUser(resp)

\* C4 as stated: a login response with neither a bearer token nor a username
\* makes login raise an error whose message is the response's 'message' field.
C4_Original ==
    (LoginAnswered /\ Neither(Last(trace).resp)) =>
        /\ outcome.status = "raised"
        /\ outcome.msg = Last(trace).resp.msg

\* C4, amended: a login response with neither a bearer token nor a username
\* makes login raise (it returns no result); the error's message is the
\* response's 'message' field when it has one, and 'unknown error' when not.
C4_LoginErrorMessage ==
    (LoginAnswered /\ Neither(Last(trace).resp)) =>
        /\ outcome.status = "raised"
        /\ outcome.msg = IF Last(trace).resp.msg # Absent
                         THEN Last(trace).resp.msg ELSE "unknown error"

\* the server rejected the credentials with a message, and login raised it
C4_Witness ==
    /\ LoginAnswered
    /\ Neither(Last(trace).resp)
    /\ Last(trace).resp.msg = "Invalid username or password"
    /\ outcome = Raised("Invalid username or password")

\* C5 as stated: until a login has succeeded or restore_token was called, no
\* method other than these two sends a request or returns normally.
C5_Original ==
    (~established /\ op \notin {"none", "login", "restore_token"}) =>
        /\ \A i \in DOMAIN trace : ~IsRequest(trace[i])
        /\ outcome.status # "returned"

\* C6: when restore_token(username, token, gmail, gpasswd) has returned, the
\* session holds that username, that bearer token and a secondary token with an
\* expiry still ahead; the requests of the call made next carry that bearer
\* token and, as long as the clock has not reached that expiry, that secondary
\* token with no provider call made, and none of them is a login or a
\* device-token request.
C6_RestoreThenCall ==
    /\ (pc = "done" /\ op = "restore_token" /\ outcome.status = "returned") =>
         /\ username = args.username
         /\ auth_token = args.auth_token
         /\ gauth \in GauthTokens
         /\ expiry > clock
    /\ (restored.on /\ op \notin {"none", "login", "restore_token"}) =>
         /\ restored.auth_token \in BearerTokens
         /\ restored.gauth \in GauthTokens
         /\ \A i \in DOMAIN trace :
              IsRequest(trace[i]) =>
                /\ trace[i].who \notin {"/loq/login", "/loq/device_id"}
                /\ trace[i].bearer = restored.auth_token
                /\ (trace[i].gauthParam # Absent /\ trace[i].checkedAt < restored.expiry)
                      => (trace[i].gauthParam = restored.gauth /\ i = 1)

\* get_updates, called right after restore_token, was sent with the restored
\* bearer token and the secondary token that restore_token fetched, and returned
C6_Witness ==
    /\ restored.on
    /\ op = "get_updates"
    /\ outcome.status = "returned"
    /\ Len(trace) = 1
    /\ trace[1].bearer = restored.auth_token
    /\ trace[1].gauthParam = restored.gauth

\* C7 as stated: every request (each goes out through _request, with the
\* session's bearer token) carries both the 'now' and the 'gauth' parameter.
C7_Original ==
    \A i \in DOMAIN trace :
        IsRequest(trace[i]) =>
            /\ trace[i].nowParam # -1
            /\ trace[i].gauthParam # Absent

\* C8 as stated: whenever the response to a request returns a bearer token,
\* the session's auth_token is that token once the call is over.
C8_Original ==
    (/\ pc = "done"
     /\ trace # <<>>
     /\ IsRequest(Last(trace))
     /\ ~Last(trace).raised
     /\ Last(trace).resp.tok # Absent) => auth_token = Last(trace).resp.tok

\* C9: in login the provider is asked before the device-token request is sent,
\* the login request is signed with the key that the device-token response
\* brought, and it is sent only after both, never after a step that failed.
C9_LoginOrder ==
    op = "login" =>
        \A i \in DOMAIN trace :
            trace[i].who = "/loq/login" =>
                /\ \E j \in 1..(i - 1) :
                     /\ trace[j].who = "/loq/device_id"
                     /\ ~trace[j].raised
                     /\ trace[j].resp.dtoken # Absent
                     /\ trace[i].dsig # NoDsig
                     /\ trace[i].dsig.key = trace[j].resp.dtoken
                     /\ \E k \in 1..(j - 1) :
                          /\ IsProvider(trace[k])
                          /\ ~trace[k].raised
                          /\ trace[j].gauthParam \in GauthTokens
                /\ \A m \in 1..(i - 1) :
                     /\ ~trace[m].raised
                     /\ trace[m].who # "/loq/login"

\* a login that got as far as its login request
C9_Witness ==
    /\ LoginOver
    /\ Len(trace) >= 3
    /\ Last(trace).who = "/loq/login"

Failed_(e) == IF IsProvider(e) THEN e.raised ELSE e.resp.status # "ok"

----------------------------------------------------------------------------
(* The media functions *)

MediaTypeOver == pc = "done" /\ op = "get_media_type"

\* C11: get_media_type looks at the first two bytes only: data that begins
\* FF D8 is an Image, data that begins 00 00 or 50 4B is a Video, and any other
\* data, the empty and the one-byte string included, has no type (None); the
\* call always returns.
C11_MediaTypeFromPrefix ==
    MediaTypeOver =>
        LET d == args.data IN
        /\ outcome.status = "returned"
        /\ outcome.media_type =
              IF Len(d) >= 2 /\ d[1] = 255 /\ d[2] = 216 THEN MEDIA_IMAGE
              ELSE IF Len(d) >= 2 /\ d[1] = 0 /\ d[2] = 0 THEN MEDIA_VIDEO
              ELSE IF Len(d) >= 2 /\ d[1] = 80 /\ d[2] = 75 THEN MEDIA_VIDEO
              ELSE -1
        /\ \A e \in Blobs :
              (Len(e) >= 2 /\ Len(d) >= 2 /\ e[1] = d[1] /\ e[2] = d[2])
                  => get_media_type(e) = outcome.media_type

\* a zip archive of three bytes was classified as a Video
C11_Witness ==
    /\ MediaTypeOver
    /\ args.data = <<80, 75, 1>>
    /\ outcome = ReturnedMediaType(MEDIA_VIDEO)

FileExtensionOver == pc = "done" /\ op = "get_file_extension"

\* C12: get_file_extension returns "mp4" for Video and for VideoNoAudio, "jpg"
\* for Image, and the empty string for every other value, None included; it
\* always returns.
C12_FileExtension ==
    FileExtensionOver =>
        LET m == args.media_type IN
        /\ outcome.status = "returned"
        /\ (m = MEDIA_VIDEO \/ m = MEDIA_VIDEO_NOAUDIO) => outcome.value = "mp4"
        /\ m = MEDIA_IMAGE => outcome.value = "jpg"
        /\ m \notin {MEDIA_IMAGE, MEDIA_VIDEO, MEDIA_VIDEO_NOAUDIO}
              => outcome.value = ""

\* the extension of a video without audio was asked for, and is "mp4"
C12_Witness ==
    /\ FileExtensionOver
    /\ args.media_type = MEDIA_VIDEO_NOAUDIO
    /\ outcome = Returned("mp4")

\* the extension of None was asked for, and is empty
C12_WitnessNone ==
    /\ FileExtensionOver
    /\ args.media_type = -1
    /\ outcome = Returned("")

ProcessSnapWrote == pc = "done" /\ op = "process_snap" /\ written # <<>>

\* C13 as stated: the extension of the file that process_snap writes follows
\* the leading bytes of the blob, not the media type that the server declared:
\* a blob that begins FF D8 is written with the extension "jpg".
C13_Original ==
    (ProcessSnapWrote /\ is_image(written[1].data)) =>
        written[1].name.ext = "jpg"

SameInputs(a, b) ==
    /\ a.data.username = b.data.username
    /\ a.data.password = b.data.password
    /\ a.now = b.now
    /\ a.data.req_token = b.data.req_token
    /\ a.data.dtoken1i = b.data.dtoken1i

\* C14: the signature of a login request is a function of the username, the
\* password, the timestamp, the request token and the signing key alone: it is
\* the keyed hash, under the key of the device token, of these four fields
\* joined by '|' in this order, cut to 20 characters, and two login requests
\* that agree on the five inputs carry the same signature whatever else the
\* session held.
C14_SignatureDeterministic ==
    /\ \A i, j \in DOMAIN signed :
          SameInputs(signed[i], signed[j]) => signed[i].data.dsig = signed[j].data.dsig
    /\ \A i \in DOMAIN signed :
          LET d == signed[i].data IN
          /\ d.dsig.key = d.dtoken1i
          /\ d.dsig.msg = <<d.username, "|", d.password, "|", signed[i].now, "|",
                            d.req_token>>
          /\ d.dsig.digits = 20
    /\ (trace # <<>> /\ Last(trace).who = "/loq/login")
          => Last(trace).dsig = Last(signed).data.dsig

\* two logins signed the same inputs while the session's secondary token and
\* the time of sending differed, and the signatures are equal
C14_Witness ==
    /\ Len(signed) = 2
    /\ SameInputs(signed[1], signed[2])
    /\ signed[1].gauth # signed[2].gauth
    /\ trace[Len(trace)].nowParam < clock
    /\ signed[1].data.dsig = signed[2].data.dsig

BlobFetched ==
    /\ pc = "done"
    /\ op = "get_blob"
    /\ trace # <<>>
    /\ IsRequest(Last(trace))
    /\ ~Last(trace).raised

Mentions(msg, u) == \E before \in {"", "No account of "} : msg = before \o u

\* C16 as stated: the error that login raises on a rejected login names the
\* user who tried to log in.
C16_Original ==
    (LoginAnswered /\ outcome.status = "raised") =>
        Mentions(outcome.msg, args.username)

\* the step ended with a provider call
AskedProvider == trace' # trace /\ trace' # <<>> /\ IsProvider(Last(trace'))

\* C17: the cached secondary token and its expiry change together only, in a
\* step that called the provider, and to the token and the expiry of that
\* one answer (they start as the unset token and the epoch); a step in which
\* the provider call of _get_gauth fails changes none of gauth, expiry,
\* username and auth_token.
C17_PairFromOneResponse ==
    [][ /\ (gauth' # gauth \/ expiry' # expiry) =>
              /\ AskedProvider
              /\ ~Last(trace').raised
              /\ gauth' = Last(trace').answer.token
              /\ expiry' = Last(trace').answer.expiry
        /\ (AskedProvider /\ Last(trace').who = "_get_gauth" /\ Last(trace').raised) =>
              UNCHANGED <<gauth, expiry, username, auth_token>>
      ]_vars

\* a call on a session with a bearer token and an expired secondary token ended
\* on the failure of _get_gauth's provider call, and the session is as it was
C17_Witness ==
    /\ pc = "done"
    /\ op = "get_blob"
    /\ trace # <<>>
    /\ IsProvider(Last(trace))
    /\ Last(trace).who = "_get_gauth"
    /\ Last(trace).raised
    /\ gauth \in GauthTokens
    /\ gauth = pre.gauth
    /\ expiry = pre.expiry
    /\ auth_token \in BearerTokens
    /\ auth_token = pre.auth_token
    /\ username = pre.username

\* C18: login clears the credentials of the session before it sends the login
\* request, which therefore carries no bearer token; the device-token request
\* goes out before that and carries the bearer token that the session held when
\* login was called.
C18_LoginBearer ==
    op = "login" =>
        /\ \A i \in DOMAIN trace :
              /\ trace[i].who = "/loq/device_id" => trace[i].bearer = pre.auth_token
              /\ trace[i].who = "/loq/login" =>
                    /\ trace[i].bearer = None
                    /\ \E j \in 1..(i - 1) : trace[j].who = "/loq/device_id"
        /\ pc \in {"login_gauth", "login_req"} =>
              (username = None /\ auth_token = None)

\* a login on a session that held a bearer token: the device-token request
\* carried it, the login request carried none
C18_Witness ==
    /\ LoginOver
    /\ pre.auth_token \in BearerTokens
    /\ \E i \in DOMAIN trace :
          trace[i].who = "/loq/device_id" /\ trace[i].bearer = pre.auth_token
    /\ Last(trace).who = "/loq/login"
    /\ Last(trace).bearer = None

\* the methods that store credentials: login, restore_token, and get_updates
\* with the methods that call it
CredentialOps == {"login", "restore_token"} \cup GetUpdatesOps

\* C19: username and auth_token change in steps of login, restore_token,
\* get_updates and the methods that call get_updates only, and the provider
\* credentials in steps of login and restore_token only: a step of any other
\* method, whether its call succeeds or fails, leaves them as they are and can
\* change no field of the session but gauth and expiry.  This holds of logout
\* too, which does not clear the credentials.
C19_CredentialFrame ==
    [][ /\ (username' # username \/ auth_token' # auth_token) =>
              op' \in CredentialOps
        /\ (gmail' # gmail \/ gpasswd' # gpasswd) =>
              op' \in {"login", "restore_token"}
        /\ (gauth' # gauth \/ expiry' # expiry) =>
              op' \in GauthOps \cup {"login", "restore_token"}
      ]_vars

\* logout returned true on a session that holds credentials, and they are
\* still there
C19_Witness ==
    /\ pc = "done"
    /\ op = "logout"
    /\ outcome = Returned("True")
    /\ username \in Users
    /\ auth_token \in BearerTokens
    /\ username = pre.username
    /\ auth_token = pre.auth_token

\* mark_viewed failed on the network after its _get_gauth had renewed the
\* secondary token: the credentials are as they were
C19_WitnessFailed ==
    /\ pc = "done"
    /\ op = "mark_viewed"
    /\ outcome = Raised("TransportError")
    /\ gauth # pre.gauth
    /\ auth_token \in BearerTokens
    /\ auth_token = pre.auth_token
    /\ username = pre.username

\* upload of a file that exists is over
UploadOver == pc = "done" /\ op = "upload" /\ args.exists

UploadRequests == { i \in DOMAIN trace : trace[i].who = "/ph/upload" }

SessionAsBefore ==
    /\ username = pre.username
    /\ auth_token = pre.auth_token
    /\ gauth = pre.gauth
    /\ expiry = pre.expiry

\* C20 as stated, for the uploads of a session that a login or restore_token
\* has set up: upload of data of unknown media type raises before any provider
\* call or request and leaves the session as it was; upload of an Image or a
\* Video sends exactly one upload request, and gives the media id only if the
\* body of the response is empty (None otherwise).
C20_Original ==
    (UploadOver /\ established /\ auth_token \in BearerTokens) =>
        IF get_media_type(args.data) = -1
        THEN outcome.status = "raised" /\ trace = <<>> /\ SessionAsBefore
        ELSE /\ Cardinality(UploadRequests) = 1
             /\ outcome.value = "media_id" => Last(trace).resp.empty
             /\ (outcome.status = "returned" /\ ~Last(trace).resp.empty)
                    => outcome.value = None

\* C20, amended: upload of data of unknown media type raises before any
\* provider call or request and leaves the session as it was; upload of an
\* Image or a Video sends at most one upload request and no other request:
\* exactly one, unless the provider call of _get_gauth failed, which ends the
\* call with that error and nothing sent; when the request was answered, the
\* call returns the media id if the body of the response is empty and None
\* if not.
C20_UploadChecked ==
    UploadOver =>
        IF get_media_type(args.data) = -1
        THEN outcome = Raised("ValueError") /\ trace = <<>> /\ SessionAsBefore
        ELSE /\ \A i \in DOMAIN trace : IsRequest(trace[i]) => i \in UploadRequests
             /\ Cardinality(UploadRequests) <= 1
             /\ UploadRequests = {} <=>
                    /\ trace # <<>>
                    /\ IsProvider(Last(trace))
                    /\ Last(trace).raised
                    /\ outcome = Raised("AuthError")
             /\ UploadRequests # {} =>
                    /\ IsRequest(Last(trace))
                    /\ outcome = IF Last(trace).raised THEN Raised("TransportError")
                                 ELSE IF Last(trace).resp.empty THEN Returned("media_id")
                                 ELSE Returned(None)

\* a file of unknown media type was handed to upload on a session that holds
\* credentials: the call raised and nothing was sent
C20_Witness ==
    /\ UploadOver
    /\ args.data = <<1, 2>>
    /\ outcome = Raised("ValueError")
    /\ trace = <<>>
    /\ auth_token \in BearerTokens
    /\ gauth \in GauthTokens

\* a JPEG was uploaded in one request, the response was empty and the media id
\* was returned
C20_WitnessSent ==
    /\ UploadOver
    /\ get_media_type(args.data) = MEDIA_IMAGE
    /\ Cardinality(UploadRequests) = 1
    /\ Last(trace).resp.empty
    /\ outcome = Returned("media_id")

====
